---- MODULE Spec2Model ----
(***************************************************************************)
(* Zora: the build command's resolution of a project descriptor            *)
(* (src/src/config.rs) into a template context and its rendering into a    *)
(* CMakeLists.txt (src/src/commands/build.rs).                             *)
(*                                                                         *)
(* Strings of the program are sequences of one-character strings, so that  *)
(* to_uppercase, replace and the byte order of keys are computed and not   *)
(* assumed.  A rendered line is the concatenation of the template's        *)
(* literal fragments (multi-character strings) and the interpolated        *)
(* strings; lines of the template that hold only white space are not       *)
(* modelled.                                                               *)
(***************************************************************************)
EXTENDS Integers, Sequences, FiniteSets, TLC

VARIABLES config, args, pc, profile, enabled_features, all_flags,
          all_defines, ctx, cmake_content, build_dir,
          \* the rest of `zora build`: the external steps and what they leave
          steps, configure_status, build_status, artifacts, target_dir,
          compile_commands,
          \* `zora add` and `zora remove`: project.toml on disk and the
          \* locals of each running command
          file, mpc, cmd, project_toml, updated_toml, ran,
          \* main's exit code and the exit code of the last external tool
          exit_code, tool_code,
          \* the collaborators: fmt --check, lint, test and check; features
          \* enable / disable; watch with the source tree's timestamps
          collab, features_cmd, watch, mtime, clock

\* What the external steps of `zora build` write.
pipeline_vars == <<steps, configure_status, build_status, artifacts,
                   target_dir, compile_commands, exit_code, tool_code>>

\* The locals of the collaborator commands and the clock and timestamps the
\* watch loop reads.
collab_vars == <<collab, features_cmd, watch, mtime, clock>>

\* project.toml on disk and the locals of the add and remove commands.
mutator_vars == <<file, mpc, cmd, project_toml, updated_toml, ran>>

\* The descriptor as loaded, the command lines and the locals of the build
\* command up to the written build file.
build_vars == <<config, args, pc, profile, enabled_features, all_flags,
                all_defines, ctx, cmake_content, build_dir>>

vars == <<config, args, pc, profile, enabled_features, all_flags,
          all_defines, ctx, cmake_content, build_dir,
          steps, configure_status, build_status, artifacts, target_dir,
          compile_commands,
          file, mpc, cmd, project_toml, updated_toml, ran,
          exit_code, tool_code,
          collab, features_cmd, watch, mtime, clock>>

\* Two invocations of `zora build` on the same project root.
Inv == {1, 2}

-----------------------------------------------------------------------------
(* Characters and strings *)

Lower == <<"a","b","c","d","e","f","g","h","i","j","k","l","m",
           "n","o","p","q","r","s","t","u","v","w","x","y","z">>

Upper == <<"A","B","C","D","E","F","G","H","I","J","K","L","M",
           "N","O","P","Q","R","S","T","U","V","W","X","Y","Z">>

\* The characters the model uses, in byte order.
ByteOrder == <<"-", ".", "/", "0","1","2","3","4","5","6","7","8","9">>
             \o Upper \o <<"_">> \o Lower

RankOf == [c \in {ByteOrder[i] : i \in 1..Len(ByteOrder)} |->
              CHOOSE i \in 1..Len(ByteOrder) : ByteOrder[i] = c]

Rank(c) == RankOf[c]

\* char::to_uppercase on the characters of ByteOrder.
UpperOf == [c \in {ByteOrder[i] : i \in 1..Len(ByteOrder)} |->
               IF \E i \in 1..Len(Lower) : Lower[i] = c
               THEN Upper[CHOOSE i \in 1..Len(Lower) : Lower[i] = c]
               ELSE c]

UpperChar(c) == UpperOf[c]

\* str::to_uppercase
to_uppercase(s) == [i \in 1..Len(s) |-> UpperChar(s[i])]

\* str::replace("-", "_")
replace_dash(s) == [i \in 1..Len(s) |-> IF s[i] = "-" THEN "_" ELSE s[i]]

\* Ord for String: lexicographic on bytes.
StrLess(a, b) ==
    \E n \in 0..(IF Len(a) < Len(b) THEN Len(a) ELSE Len(b)) :
        /\ \A j \in 1..n : a[j] = b[j]
        /\ \/ n = Len(a) /\ n < Len(b)
           \/ n < Len(a) /\ n < Len(b) /\ Rank(a[n+1]) < Rank(b[n+1])

RECURSIVE SortedSeq(_)
\* The strings of S in increasing order (iteration order of a BTreeMap's keys).
SortedSeq(S) ==
    IF S = {} THEN <<>>
    ELSE LET m == CHOOSE k \in S : \A j \in S \ {k} : StrLess(k, j)
         IN  <<m>> \o SortedSeq(S \ {m})

\* Every order in which the elements of S can be visited (iteration of a
\* HashMap or HashSet: the order is not defined and differs between maps).
Orders(S) ==
    {s \in [1..Cardinality(S) -> S] :
        \A i, j \in 1..Cardinality(S) : i # j => s[i] # s[j]}

Range(s) == {s[i] : i \in 1..Len(s)}

\* HashMap::extend: the entries of n overwrite those of m.
Extend(m, n) ==
    [k \in DOMAIN m \cup DOMAIN n |-> IF k \in DOMAIN n THEN n[k] ELSE m[k]]

\* HashMap::insert
Insert(m, k, v) == [j \in DOMAIN m \cup {k} |-> IF j = k THEN v ELSE m[j]]

EmptyMap == [k \in {} |-> <<>>]

-----------------------------------------------------------------------------
(* config.rs: the descriptor *)

\* "-Wall", "-Wextra", "-DNDEBUG"
Wall == <<"-","W","a","l","l">>

Wextra == <<"-","W","e","x","t","r","a">>

DNDEBUG == <<"-","D","N","D","E","B","U","G">>

\* fn default_dev_profile
default_dev_profile ==
    [opt_level |-> <<"0">>, debug |-> TRUE, lto |-> FALSE, strip |-> FALSE,
     flags |-> <<Wall, Wextra>>, defines |-> EmptyMap]

\* fn default_release_profile
default_release_profile ==
    [opt_level |-> <<"3">>, debug |-> FALSE, lto |-> TRUE, strip |-> TRUE,
     flags |-> <<Wall, Wextra, DNDEBUG>>, defines |-> EmptyMap]

\* The names the match of get_profile tests for.
M_dev == <<"d","e","v">>

M_debug == <<"d","e","b","u","g">>

M_release == <<"r","e","l","e","a","s","e">>

\* A bug get_profile could have: an undeclared name falls back to release.
get_profile_fallback_release(cfg, mode) ==
    IF mode = M_dev \/ mode = M_debug THEN cfg.profile.dev
    ELSE IF mode = M_release THEN cfg.profile.release
    ELSE IF mode \in DOMAIN cfg.profile.custom THEN cfg.profile.custom[mode]
    ELSE cfg.profile.release

\* ProjectConfig::get_profile
get_profile(cfg, mode) ==
    IF mode = M_dev \/ mode = M_debug THEN cfg.profile.dev
    ELSE IF mode = M_release THEN cfg.profile.release
    ELSE IF mode \in DOMAIN cfg.profile.custom THEN cfg.profile.custom[mode]
    ELSE cfg.profile.dev

\* ProjectConfig::is_library
is_library(cfg) == cfg.type = <<"l","i","b">> \/ cfg.type = <<"l","i","b","r","a","r","y">>

\* ProjectConfig::is_cpp
is_cpp(cfg) == cfg.language = <<"c","p","p">> \/ cfg.language = <<"c","+","+">>

-----------------------------------------------------------------------------
(* build.rs, run: the enabled features *)

\* A bug: the default features are added when they are switched off.
EnabledFeaturesInverted(cfg, features, all_features, no_default_features) ==
    (IF no_default_features THEN Range(cfg.default_features) ELSE {})
    \cup (IF all_features THEN DOMAIN cfg.features ELSE Range(features))

\* A bug: features are toggles, so that listing a default feature switches
\* it off.
EnabledFeaturesToggle(cfg, features, all_features, no_default_features) ==
    LET D == IF no_default_features THEN {} ELSE Range(cfg.default_features)
        S == IF all_features THEN DOMAIN cfg.features ELSE Range(features)
    IN  (D \ S) \cup (S \ D)

\* A bug: the names a feature declares are added with it.
EnabledFeaturesExpanded(cfg, features, all_features, no_default_features) ==
    LET direct == (IF no_default_features THEN {} ELSE Range(cfg.default_features))
                  \cup (IF all_features THEN DOMAIN cfg.features ELSE Range(features))
    IN  direct \cup UNION {Range(cfg.features[f]) : f \in direct \cap DOMAIN cfg.features}

\* let mut enabled_features = HashSet::new(); ... the two extends.
EnabledFeatures(cfg, features, all_features, no_default_features) ==
    LET with_default == IF no_default_features THEN {}
                        ELSE {} \cup Range(cfg.default_features)
    IN  IF all_features THEN with_default \cup DOMAIN cfg.features
        ELSE with_default \cup Range(features)

-----------------------------------------------------------------------------
(* build.rs, run: flags and defines *)

\* A bug: the build flags come first.
AllFlagsBuildFirst(prof, cfg) == cfg.build.flags \o prof.flags

\* let mut all_flags = profile.flags.clone(); all_flags.extend(build.flags)
AllFlags(prof, cfg) == prof.flags \o cfg.build.flags

FEATURE_ == <<"F","E","A","T","U","R","E","_">>

\* A bug: the '-' of a feature name is kept.
FeatureDefineKeyNoReplace(feature) == FEATURE_ \o to_uppercase(feature)

\* format!("FEATURE_{}", feature.to_uppercase().replace("-", "_"))
FeatureDefineKey(feature) == FEATURE_ \o replace_dash(to_uppercase(feature))

RECURSIVE InsertFeatureDefines(_, _)
\* for feature in &enabled_features { all_defines.insert(key, "1") }, the
\* features visited in the given order.
InsertFeatureDefines(defines, order) ==
    IF order = <<>> THEN defines
    ELSE InsertFeatureDefines(
             Insert(defines, FeatureDefineKey(Head(order)), <<"1">>),
             Tail(order))

\* A bug: the build defines are laid under the profile's.
AllDefinesProfileWins(prof, cfg, order) ==
    InsertFeatureDefines(Extend(cfg.build.defines, prof.defines), order)

\* all_defines: the profile's defines, extended by the build defines, then
\* one insert per enabled feature.
AllDefines(prof, cfg, order) ==
    InsertFeatureDefines(Extend(prof.defines, cfg.build.defines), order)

-----------------------------------------------------------------------------
(* build.rs, run: the template context *)

NoEntry == [k \in {} |-> FALSE]

\* ctx.insert(key, value) under a condition
InsertIf(cond, key, value) == IF cond THEN key :> value ELSE NoEntry

\* The TeraContext of run: the inserts of lines 158-209, `packages` being the
\* keys of config.deps in the order the HashMap gave them.
BuildContext(cfg, prof, project_name, flags, defines, packages) ==
    ("name" :> project_name)
    @@ ("language" :> IF is_cpp(cfg) THEN <<"C","X","X">> ELSE <<"C">>)
    @@ ("source_dirs" :> cfg.sources.dirs)
    @@ ("include_dirs" :> cfg.includes.dirs)
    @@ ("is_library" :> is_library(cfg))
    @@ ("use_vcpkg" :> (DOMAIN cfg.deps # {}))
    @@ ("lto" :> prof.lto)
    @@ InsertIf(is_cpp(cfg) /\ cfg.std # <<>>, "cpp_std", cfg.std)
    @@ InsertIf(~is_cpp(cfg) /\ cfg.std # <<>>, "c_std", cfg.std)
    @@ InsertIf(flags # <<>>, "build_flags", flags)
    @@ InsertIf(DOMAIN defines # {}, "defines", defines)
    @@ InsertIf(cfg.build.libs # <<>>, "link_libs", cfg.build.libs)
    @@ InsertIf(cfg.build.lib_dirs # <<>>, "lib_dirs", cfg.build.lib_dirs)
    @@ InsertIf(DOMAIN cfg.deps # {}, "vcpkg_packages", packages)

-----------------------------------------------------------------------------
(* build.rs, PROJECT_CMAKE_TEMPLATE: Tera's rendering *)

\* {% if x %}: an undefined variable is false, a bool is itself, a string or
\* an array is true when it is not empty, an object when it has a key.
IfBool(c, k) == k \in DOMAIN c /\ c[k]

IfSeq(c, k) == k \in DOMAIN c /\ Len(c[k]) > 0

IfMap(c, k) == k \in DOMAIN c /\ DOMAIN c[k] # {}

\* {% for x in xs %} with two lines of body: the two lines of each x in turn.
Interleave(first, second) ==
    [n \in 1..(2 * Len(first)) |->
        IF n % 2 = 1 THEN first[(n + 1) \div 2] ELSE second[n \div 2]]

VcpkgBlock(c) ==
    IF IfBool(c, "use_vcpkg")
    THEN << <<"set(CMAKE_TOOLCHAIN_FILE \"$ENV{VCPKG_ROOT}/scripts/buildsystems/vcpkg.cmake\" CACHE STRING \"Vcpkg toolchain file\")">> >>
    ELSE <<>>

StdBlock(c) ==
    (IF IfSeq(c, "cpp_std")
     THEN << <<"set(CMAKE_CXX_STANDARD ">> \o c["cpp_std"] \o <<")">>,
             <<"set(CMAKE_CXX_STANDARD_REQUIRED ON)">> >>
     ELSE <<>>)
    \o
    (IF IfSeq(c, "c_std")
     THEN << <<"set(CMAKE_C_STANDARD ">> \o c["c_std"] \o <<")">>,
             <<"set(CMAKE_C_STANDARD_REQUIRED ON)">> >>
     ELSE <<>>)

SourcesBlock(c) ==
    LET dirs == c["source_dirs"]
        GlobC == [n \in 1..Len(dirs) |->
                    <<"    \"${PROJECT_SOURCE_DIR}/../../">> \o dirs[n] \o <<"/*.c\"">>]
        GlobCpp == [n \in 1..Len(dirs) |->
                      <<"    \"${PROJECT_SOURCE_DIR}/../../">> \o dirs[n] \o <<"/*.cpp\"">>]
    IN  << <<"file(GLOB_RECURSE SOURCES ">> >>
        \o Interleave(GlobC, GlobCpp)
        \o << <<")">> >>

TargetBlock(c) ==
    IF IfBool(c, "is_library")
    THEN << <<"add_library(">> \o c["name"] \o <<" ${SOURCES})">> >>
    ELSE << <<"add_executable(">> \o c["name"] \o <<" ${SOURCES})">> >>

IncludesBlock(c) ==
    [n \in 1..Len(c["include_dirs"]) |->
        <<"target_include_directories(">> \o c["name"]
        \o <<" PRIVATE \"${PROJECT_SOURCE_DIR}/../../">>
        \o c["include_dirs"][n] \o <<"\")">>]

FindLine(package) == <<"find_package(">> \o package \o <<" REQUIRED)">>

LinkLine(name, package) ==
    <<"target_link_libraries(">> \o name \o <<" PRIVATE ">>
    \o package \o <<"::">> \o package \o <<")">>

PackagesBlock(c) ==
    IF IfSeq(c, "vcpkg_packages")
    THEN LET packages == c["vcpkg_packages"]
         IN  Interleave([n \in 1..Len(packages) |-> FindLine(packages[n])],
                        [n \in 1..Len(packages) |-> LinkLine(c["name"], packages[n])])
    ELSE <<>>

FlagsBlock(c) ==
    IF IfSeq(c, "build_flags")
    THEN << <<"target_compile_options(">> \o c["name"] \o <<" PRIVATE ">> >>
         \o [n \in 1..Len(c["build_flags"]) |->
                <<"    \"">> \o c["build_flags"][n] \o <<"\"">>]
         \o << <<")">> >>
    ELSE <<>>

DefineLine(name, key, value) ==
    <<"target_compile_definitions(">> \o name \o <<" PRIVATE ">>
    \o key \o <<"=">> \o value \o <<")">>

\* {% for key, value in defines %}: Tera holds an object as a serde_json Map,
\* a BTreeMap in Tera's default build, so the keys come in byte order.
DefinesBlock(c) ==
    IF IfMap(c, "defines")
    THEN LET keys == SortedSeq(DOMAIN c["defines"])
         IN  [n \in 1..Len(keys) |->
                 DefineLine(c["name"], keys[n], c["defines"][keys[n]])]
    ELSE <<>>

LinkLibsBlock(c) ==
    IF IfSeq(c, "link_libs")
    THEN << <<"target_link_libraries(">> \o c["name"] \o <<" PRIVATE ">> >>
         \o [n \in 1..Len(c["link_libs"]) |-> <<"    ">> \o c["link_libs"][n]]
         \o << <<")">> >>
    ELSE <<>>

LibDirLine(name, d) ==
    <<"target_link_directories(">> \o name \o <<" PRIVATE \"">> \o d \o <<"\")">>

LibDirsBlock(c) ==
    IF IfSeq(c, "lib_dirs")
    THEN [n \in 1..Len(c["lib_dirs"]) |-> LibDirLine(c["name"], c["lib_dirs"][n])]
    ELSE <<>>

LtoLine(name) ==
    <<"set_property(TARGET ">> \o name
    \o <<" PROPERTY INTERPROCEDURAL_OPTIMIZATION TRUE)">>

\* A bug: the toggle is written without its {% if lto %}.
LtoBlockAlways(c) == << LtoLine(c["name"]) >>

LtoBlock(c) == IF IfBool(c, "lto") THEN << LtoLine(c["name"]) >> ELSE <<>>

\* Tera::one_off(PROJECT_CMAKE_TEMPLATE, &ctx, false)
Render(c) ==
    << <<"cmake_minimum_required(VERSION 3.10)">>,
       <<"project(">> \o c["name"] \o <<" ">> \o c["language"] \o <<")">> >>
    \o VcpkgBlock(c)
    \o StdBlock(c)
    \o SourcesBlock(c)
    \o TargetBlock(c)
    \o IncludesBlock(c)
    \o PackagesBlock(c)
    \o FlagsBlock(c)
    \o DefinesBlock(c)
    \o LinkLibsBlock(c)
    \o LibDirsBlock(c)
    \o LtoBlock(c)

-----------------------------------------------------------------------------
(* The build command as a state machine *)

\* A local of run that is not assigned yet.
Unset == [unset |-> TRUE]

\* name_opt: None
None == [some |-> FALSE]

\* run, lines 126-209: load the descriptor, pick the profile, determine the
\* enabled features, merge flags and defines and fill the template context.
\* The two HashMap/HashSet iterations take any order.
Resolve(i) ==
    /\ pc[i] = "start"
    /\ LET prof == get_profile(config, args[i].mode)
           enabled == EnabledFeatures(config, args[i].features,
                                      args[i].all_features,
                                      args[i].no_default_features)
           project_name == IF args[i].name_opt.some
                           THEN args[i].name_opt.val ELSE config.name
           flags == AllFlags(prof, config)
       IN  \E order \in Orders(enabled), packages \in Orders(DOMAIN config.deps) :
             LET defines == AllDefines(prof, config, order)
             IN  /\ profile' = [profile EXCEPT ![i] = prof]
                 /\ enabled_features' = [enabled_features EXCEPT ![i] = enabled]
                 /\ all_flags' = [all_flags EXCEPT ![i] = flags]
                 /\ all_defines' = [all_defines EXCEPT ![i] = defines]
                 /\ ctx' = [ctx EXCEPT ![i] =
                              BuildContext(config, prof, project_name,
                                           flags, defines, packages)]
    /\ pc' = [pc EXCEPT ![i] = "resolved"]
    /\ UNCHANGED <<config, args, cmake_content, build_dir>>
    /\ UNCHANGED <<pipeline_vars, mutator_vars, collab_vars>>

\* run, lines 211-218: render the template and write
\* .build/<mode>/CMakeLists.txt.
Generate(i) ==
    /\ pc[i] = "resolved"
    /\ LET content == Render(ctx[i])
       IN  /\ cmake_content' = [cmake_content EXCEPT ![i] = content]
           /\ build_dir' = (args[i].mode :> content) @@ build_dir
    /\ steps' = [steps EXCEPT ![i] = Append(@, "write")]
    /\ pc' = [pc EXCEPT ![i] = "generated"]
    /\ UNCHANGED <<config, args, profile, enabled_features, all_flags,
                   all_defines, ctx>>
    /\ UNCHANGED <<configure_status, build_status, artifacts, target_dir,
                   compile_commands, exit_code, tool_code, mutator_vars,
                   collab_vars>>

Next == \E i \in Inv : Resolve(i) \/ Generate(i)

\* Two invocations of `zora add` or `zora remove` on the same project root.
Proc == {1, 2}

\* No step of the build command has run: nothing in .build/<mode> or
\* target/<mode>, no compile_commands.json link.
InitPipeline ==
    /\ steps = [i \in Inv |-> <<>>]
    /\ configure_status = [i \in Inv |-> "none"]
    /\ build_status = [i \in Inv |-> "none"]
    /\ artifacts = NoEntry
    /\ target_dir = NoEntry
    /\ compile_commands = None
    /\ exit_code = [i \in Inv |-> -1]
    /\ tool_code = [i \in Inv |-> -1]

\* The collaborators that run an external tool on each candidate file.
Tools == {"fmt", "lint", "test", "check"}

\* A collaborator that does not run: its candidate files, the outcomes of
\* the files it has processed, its failure counter.
ToolOff == [state |-> "off", files |-> 0, seen |-> <<>>, errors |-> 0]

\* No features enable / disable command.
NoFeatureCommand == [op |-> "none", features |-> <<>>, printed |-> 0]

\* The entries of the source directory, a file and a directory, and a
\* source file inside that directory.
TopEntries == <<"a.c", "sub">>

SourceTree == {"a.c", "sub", "sub/b.c"}

\* No watch loop.
WatchOff ==
    [pc |-> "off", command |-> "none", k |-> 1, should_rebuild |-> FALSE,
     last_modified |-> 0, rebuilds |-> 0, started |-> 0, in_flight |-> 0,
     last |-> "none"]

\* No watch loop looks at the source tree.
InitNoWatch ==
    /\ watch = WatchOff
    /\ mtime = [f \in SourceTree |-> 0]
    /\ clock = 0

\* No collaborator runs.
InitCollaborators ==
    /\ collab = [t \in Tools |-> ToolOff]
    /\ features_cmd = NoFeatureCommand
    /\ InitNoWatch

\* The locals of an add or remove command that has not started.
NoCommand == [op |-> "none", packages |-> <<>>]

\* The commands of `running` are about to start; the others never run.
InitMutatorLocals(running) ==
    /\ mpc = [c \in Proc |-> IF c \in running THEN "idle" ELSE "off"]
    /\ project_toml = [c \in Proc |-> <<>>]
    /\ updated_toml = [c \in Proc |-> <<>>]
    /\ ran = [c \in Proc |-> <<>>]

\* The locals of the build command before run has assigned them.
InitBuildLocals ==
    /\ pc = [i \in Inv |-> "start"]
    /\ profile = [i \in Inv |-> Unset]
    /\ enabled_features = [i \in Inv |-> {}]
    /\ all_flags = [i \in Inv |-> <<>>]
    /\ all_defines = [i \in Inv |-> EmptyMap]
    /\ ctx = [i \in Inv |-> NoEntry]
    /\ cmake_content = [i \in Inv |-> <<>>]
    /\ build_dir = NoEntry

\* The state of the locals before run has assigned them; no add or remove
\* command runs beside the build.
InitLocals ==
    /\ InitBuildLocals
    /\ InitPipeline
    /\ InitCollaborators
    /\ file = <<>>
    /\ cmd = [c \in Proc |-> NoCommand]
    /\ InitMutatorLocals({})

-----------------------------------------------------------------------------
(* Inputs: descriptors and command lines *)

\* The longest explicit feature list (--features).
MaxFeatures == 2

\* The longest build.flags list.
MaxFlags == 2

\* The largest number of dependencies.
MaxDeps == 2

\* All sequences over S of length at most n.
SeqsUpTo(S, n) == UNION {[1..k -> S] : k \in 0..n}

S_app == <<"a","p","p">>

S_src == <<"s","r","c">>

S_include == <<"i","n","c","l","u","d","e">>

\* Feature names: "a-b", "c", "d"
F_ab == <<"a","-","b">>

F_c == <<"c">>

F_d == <<"d">>

\* Define keys: "X", "P", "FEATURE_A_B"
K_X == <<"X">>

K_P == <<"P">>

K_fab == <<"F","E","A","T","U","R","E","_","A","_","B">>

\* Flags: "-O2"
O2 == <<"-","O","2">>

\* Profile names: "fast" (declared in some descriptors), "nope" (never)
M_fast == <<"f","a","s","t">>

M_nope == <<"n","o","p","e">>

\* Dependencies
D_fmt == <<"f","m","t">>

D_zlib == <<"z","l","i","b">>

D_boost == <<"b","o","o","s","t">>

\* A descriptor with name and version only, its [profile] table empty:
\* what serde's defaults give.
BaseConfig ==
    [name |-> S_app,
     type |-> <<"e","x","e","c">>,
     language |-> <<>>,
     std |-> <<>>,
     sources |-> [dirs |-> <<S_src>>],
     includes |-> [dirs |-> <<S_include>>],
     deps |-> EmptyMap,
     build |-> [flags |-> <<>>, defines |-> EmptyMap,
                libs |-> <<>>, lib_dirs |-> <<>>],
     profile |-> [dev |-> default_dev_profile,
                  release |-> default_release_profile,
                  custom |-> EmptyMap],
     features |-> EmptyMap,
     default_features |-> <<>>]

\* [features]: none, or "a-b" = ["c"] and "d" = []
FeatureMaps == {EmptyMap, (F_ab :> <<F_c>>) @@ (F_d :> <<>>)}

DefaultLists == {<<>>, <<F_ab>>, <<F_c, F_d>>}

ProfileDefines == (K_X :> <<"p">>) @@ (K_fab :> <<"p">>) @@ (K_P :> <<"p">>)

BuildDefines == (K_X :> <<"b">>) @@ (K_fab :> <<"b">>)

\* The defines of [profile.dev] and of [build]: none, the profile's only, both.
DefineSources ==
    {<<EmptyMap, EmptyMap>>, <<ProfileDefines, EmptyMap>>,
     <<ProfileDefines, BuildDefines>>}

BuildArgs(mode, features, all_features, no_default_features) ==
    [name_opt |-> None, mode |-> mode, features |-> features,
     all_features |-> all_features,
     no_default_features |-> no_default_features]

\* Descriptors that differ in features and defines; two command lines that
\* differ in their feature selection.
Init ==
    /\ config \in
         {[BaseConfig EXCEPT !.features = fm, !.default_features = df,
                             !.profile.dev.defines = ds[1],
                             !.build.defines = ds[2]] :
            fm \in FeatureMaps, df \in DefaultLists, ds \in DefineSources}
    /\ \E af \in BOOLEAN :
         args \in [Inv -> {BuildArgs(M_dev, fs, af, ndf) :
                             fs \in SeqsUpTo({F_ab, F_c}, MaxFeatures),
                             ndf \in BOOLEAN}]
    /\ InitLocals

Spec == Init /\ [][Next]_vars

\* [profile.dev]: absent, or declared with its own flags, define and lto.
DevProfiles ==
    {default_dev_profile,
     [opt_level |-> <<"1">>, debug |-> TRUE, lto |-> TRUE, strip |-> FALSE,
      flags |-> <<O2, O2>>, defines |-> (K_X :> <<"p">>)]}

\* [profile.release]: absent, or declared empty (serde's field defaults).
ReleaseProfiles ==
    {default_release_profile,
     [opt_level |-> <<"2">>, debug |-> FALSE, lto |-> FALSE, strip |-> FALSE,
      flags |-> <<>>, defines |-> EmptyMap]}

FastProfile ==
    [opt_level |-> <<"3">>, debug |-> FALSE, lto |-> TRUE, strip |-> FALSE,
     flags |-> <<O2, Wall>>, defines |-> (K_P :> <<"f">>)]

ShadowProfile ==
    [opt_level |-> <<"s">>, debug |-> FALSE, lto |-> FALSE, strip |-> TRUE,
     flags |-> <<DNDEBUG>>, defines |-> EmptyMap]

\* [profile.custom]: none, "fast", or "fast" with tables named as the
\* built-in profiles are.
CustomProfiles ==
    {EmptyMap,
     (M_fast :> FastProfile),
     (M_fast :> FastProfile) @@ (M_dev :> ShadowProfile)
         @@ (M_release :> ShadowProfile)}

Modes == {M_dev, M_debug, M_release, M_fast, M_nope}

\* Descriptors that differ in their profiles and build flags; two command
\* lines that differ in the profile name.
InitProfile ==
    /\ config \in
         {[BaseConfig EXCEPT !.profile = [dev |-> d, release |-> r, custom |-> c],
                             !.build.flags = bf] :
            d \in DevProfiles, r \in ReleaseProfiles, c \in CustomProfiles,
            bf \in SeqsUpTo({Wall, O2}, MaxFlags)}
    /\ args \in [Inv -> {BuildArgs(m, <<>>, FALSE, FALSE) : m \in Modes}]
    /\ InitLocals

SpecProfile == InitProfile /\ [][Next]_vars

\* [deps]: at most MaxDeps of "fmt", "zlib" and "boost", each = "*".
DepMaps ==
    {[k \in S |-> <<"*">>] :
        S \in {T \in SUBSET {D_fmt, D_zlib, D_boost} : Cardinality(T) <= MaxDeps}}

\* [profile.dev] declared with no flags and lto on.
BareProfile ==
    [opt_level |-> <<"2">>, debug |-> FALSE, lto |-> TRUE, strip |-> FALSE,
     flags |-> <<>>, defines |-> EmptyMap]

\* type, language and std
Kinds ==
    {<< <<"e","x","e","c">>, <<>>, <<>> >>,
     << <<"l","i","b">>, <<"c","p","p">>, <<"1","7">> >>,
     << <<"e","x","e","c">>, <<"c">>, <<"1","1">> >>}

\* Descriptors whose lists and maps are empty or not; two command lines with
\* or without a feature.
InitEmit ==
    /\ config \in
         {[BaseConfig EXCEPT !.deps = deps, !.build.libs = libs,
                             !.build.lib_dirs = dirs, !.build.flags = bf,
                             !.profile.dev = d, !.type = k[1],
                             !.language = k[2], !.std = k[3]] :
            deps \in DepMaps, libs \in {<<>>, << <<"m">> >>},
            dirs \in {<<>>, << <<"/","l">> >>}, bf \in {<<>>, <<O2>>},
            d \in {default_dev_profile, BareProfile}, k \in Kinds}
    /\ args \in [Inv -> {[BuildArgs(M_dev, fs, FALSE, FALSE)
                              EXCEPT !.name_opt = n] :
                           fs \in {<<>>, <<F_ab>>},
                           n \in {None, [some |-> TRUE, val |-> <<"x">>]}}]
    /\ InitLocals

SpecEmit == InitEmit /\ [][Next]_vars

-----------------------------------------------------------------------------
(* Properties of the resolution *)

Resolved(i) == pc[i] # "start"

\* "FEATURE_" followed by f uppercased with every '-' replaced by '_'.
DerivedKey(f) ==
    <<"F","E","A","T","U","R","E","_">>
    \o [n \in 1..Len(f) |-> IF f[n] = "-" THEN "_" ELSE UpperOf[f[n]]]

DerivedKeys(i) == {DerivedKey(f) : f \in enabled_features[i]}

\* C1: every key K of the resolved defines has the value "1" if K is the
\* derived key of an enabled feature, otherwise the build define's value if
\* K is a build define, otherwise the resolved profile's value.
DefinePrecedence ==
    \A i \in Inv : Resolved(i) =>
        \A K \in DOMAIN all_defines[i] :
            IF K \in DerivedKeys(i) THEN all_defines[i][K] = <<"1">>
            ELSE IF K \in DOMAIN config.build.defines
                 THEN all_defines[i][K] = config.build.defines[K]
            ELSE /\ K \in DOMAIN profile[i].defines
                 /\ all_defines[i][K] = profile[i].defines[K]

\* A key in all three sources resolved to the feature's value, beside a key
\* of profile and build resolved to the build's value.
DefinePrecedenceWitness ==
    \E i \in Inv :
        /\ Resolved(i)
        /\ F_ab \in enabled_features[i]
        /\ {K_fab, K_X} \subseteq DOMAIN profile[i].defines
        /\ {K_fab, K_X} \subseteq DOMAIN config.build.defines
        /\ profile[i].defines[K_X] # config.build.defines[K_X]
        /\ all_defines[i][K_fab] = <<"1">>
        /\ all_defines[i][K_X] = <<"b">>

\* Two invocations whose command lines agree but for no_default_features,
\* which is false for i and true for j.
SameButDefaults(i, j) ==
    /\ Resolved(i) /\ Resolved(j)
    /\ args[i].mode = args[j].mode
    /\ args[i].features = args[j].features
    /\ args[i].all_features = args[j].all_features
    /\ ~args[i].no_default_features
    /\ args[j].no_default_features

\* C3: with no_default_features=false the enabled features are a superset
\* of those with no_default_features=true, and the difference lies within
\* default_features.
MonotonicFeatureUnion ==
    \A i, j \in Inv : SameButDefaults(i, j) =>
        /\ enabled_features[j] \subseteq enabled_features[i]
        /\ (enabled_features[i] \ enabled_features[j])
               \subseteq Range(config.default_features)

\* A pair of invocations where the default features make a difference, and
\* an explicit feature is also a default one.
MonotonicFeatureUnionWitness ==
    \E i, j \in Inv :
        /\ SameButDefaults(i, j)
        /\ enabled_features[j] # {}
        /\ enabled_features[i] # enabled_features[j]
        /\ Range(args[i].features) \cap Range(config.default_features) # {}

\* The features the command line of i selects beside the defaults...
Selected(i) ==
    IF args[i].all_features THEN DOMAIN config.features
    ELSE Range(args[i].features)

\* ...and the defaults that are in force for i.
Defaults(i) ==
    IF args[i].no_default_features THEN {}
    ELSE Range(config.default_features)

\* Two explicit lists that name the same features once the repetitions, and
\* the names the defaults in force bring anyway, are set aside.
SameFeaturesListed(i, j) ==
    /\ Resolved(i) /\ Resolved(j)
    /\ args[i].mode = args[j].mode
    /\ args[i].all_features = args[j].all_features
    /\ args[i].no_default_features = args[j].no_default_features
    /\ Range(args[i].features) \ Defaults(i)
           = Range(args[j].features) \ Defaults(j)

\* C4: listing a feature more than once, or listing a feature that is a
\* default feature too, gives the same enabled features and the same
\* resolved defines as listing it once.
FeatureSelectionIsSet ==
    \A i, j \in Inv : SameFeaturesListed(i, j) =>
        /\ enabled_features[i] = enabled_features[j]
        /\ all_defines[i] = all_defines[j]

\* One invocation lists "a-b", a default feature, twice; the other does not
\* list it at all.
FeatureSelectionIsSetWitness ==
    \E i, j \in Inv :
        /\ SameFeaturesListed(i, j)
        /\ ~args[i].all_features
        /\ args[i].features = <<F_ab, F_ab>>
        /\ args[j].features = <<>>
        /\ F_ab \in Defaults(i)
        /\ enabled_features[j] = {F_ab}

\* C5: the enabled features are exactly D \cup S: D the default features
\* unless no_default_features, S the keys of the feature map if all_features
\* and the explicit list otherwise.  The names a feature declares are not
\* added.
EnabledIsDefaultsAndSelected ==
    \A i \in Inv : Resolved(i) =>
        enabled_features[i] = Defaults(i) \cup Selected(i)

\* "a-b" is enabled and declares "c", which is not enabled; with
\* all_features the explicit list is ignored.
EnabledIsDefaultsAndSelectedWitness ==
    \E i, j \in Inv :
        /\ Resolved(i) /\ Resolved(j)
        /\ F_ab \in enabled_features[i]
        /\ F_ab \in DOMAIN config.features
        /\ F_c \in Range(config.features[F_ab])
        /\ F_c \notin enabled_features[i]
        /\ args[j].all_features
        /\ F_c \in Range(args[j].features)
        /\ F_c \notin enabled_features[j]

\* C6: every enabled feature f gives the define DerivedKey(f) = "1", and
\* the keys of the resolved defines are those of the profile, those of the
\* build settings and the derived ones, no more and no fewer.
FeatureDefines ==
    \A i \in Inv : Resolved(i) =>
        /\ \A f \in enabled_features[i] :
              /\ DerivedKey(f) \in DOMAIN all_defines[i]
              /\ all_defines[i][DerivedKey(f)] = <<"1">>
        /\ DOMAIN all_defines[i] =
              DOMAIN profile[i].defines \cup DOMAIN config.build.defines
              \cup DerivedKeys(i)

\* "a-b" enabled gives FEATURE_A_B, next to keys of the profile and the build
\* settings.
FeatureDefinesWitness ==
    \E i \in Inv :
        /\ Resolved(i)
        /\ enabled_features[i] = {F_ab, F_c}
        /\ K_P \in DOMAIN profile[i].defines
        /\ config.build.defines = EmptyMap
        /\ DOMAIN all_defines[i] =
              DOMAIN profile[i].defines \cup {K_fab, <<"F","E","A","T","U","R","E","_","C">>}

\* C2: get_profile returns a profile for every name: "dev" and "debug" the
\* dev profile, "release" the release profile, another name the custom
\* profile of that name if one is declared and the dev profile if not.
ProfileLookupNeverFails ==
    \A i \in Inv : Resolved(i) =>
        LET m == args[i].mode
        IN  /\ DOMAIN profile[i] = DOMAIN default_dev_profile
            /\ m \in {M_dev, M_debug} => profile[i] = config.profile.dev
            /\ m = M_release => profile[i] = config.profile.release
            /\ m \notin {M_dev, M_debug, M_release} =>
                  IF m \in DOMAIN config.profile.custom
                  THEN profile[i] = config.profile.custom[m]
                  ELSE /\ profile[i] = config.profile.dev
                       /\ profile[i].flags = config.profile.dev.flags
                       /\ profile[i].defines = config.profile.dev.defines
                       /\ profile[i].lto = config.profile.dev.lto

\* "nope" fell back to a dev profile that differs from the release profile,
\* while "fast" gave the declared custom profile and a custom table named
\* "dev" did not replace the dev profile.
ProfileLookupNeverFailsWitness ==
    \E i, j \in Inv :
        /\ Resolved(i) /\ Resolved(j)
        /\ args[i].mode = M_nope
        /\ M_nope \notin DOMAIN config.profile.custom
        /\ profile[i] = config.profile.dev
        /\ profile[i] # config.profile.release
        /\ M_dev \in DOMAIN config.profile.custom
        /\ config.profile.custom[M_dev] # config.profile.dev
        /\ args[j].mode = M_fast
        /\ profile[j] = FastProfile

\* The number of places of s that hold x.
Count(s, x) == Cardinality({n \in 1..Len(s) : s[n] = x})

\* C7: the resolved flags are the profile's flags followed by the build
\* flags: nothing is dropped, nothing reordered, duplicates stay.
FlagsConcatenated ==
    \A i \in Inv : Resolved(i) =>
        LET pf == profile[i].flags
            bf == config.build.flags
        IN  /\ Len(all_flags[i]) = Len(pf) + Len(bf)
            /\ \A n \in 1..Len(pf) : all_flags[i][n] = pf[n]
            /\ \A n \in 1..Len(bf) : all_flags[i][Len(pf) + n] = bf[n]
            /\ all_flags[i] # <<>> =>
                  /\ "build_flags" \in DOMAIN ctx[i]
                  /\ ctx[i]["build_flags"] = all_flags[i]

\* "-O2" twice in the profile and once more in the build flags, after
\* "-Wall": all four flags are there, in that order.
FlagsConcatenatedWitness ==
    \E i \in Inv :
        /\ Resolved(i)
        /\ profile[i].flags = <<O2, O2>>
        /\ config.build.flags = <<Wall, O2>>
        /\ all_flags[i] = <<O2, O2, Wall, O2>>
        /\ Count(all_flags[i], O2) = 3

-----------------------------------------------------------------------------
(* Properties of the generated file *)

Generated(i) == pc[i] = "generated"

\* The lines of text whose first fragment is the template's `first`.
LinesFrom(text, first) == {n \in 1..Len(text) : text[n][1] = first}

\* The package a find_package line names.
FoundPackage(line) == SubSeq(line, 2, Len(line) - 1)

\* The packages of the find_package lines of text, in the order of the lines.
RECURSIVE FoundPackages(_)
FoundPackages(text) ==
    IF text = <<>> THEN <<>>
    ELSE (IF Head(text)[1] = "find_package("
          THEN <<FoundPackage(Head(text))>> ELSE <<>>)
         \o FoundPackages(Tail(text))

\* C8: the package list handed to the template is the dependency map's
\* keys in sorted order, and so are the find/link pairs of the file.
PackagesSorted ==
    \A i \in Inv :
        /\ (Resolved(i) /\ "vcpkg_packages" \in DOMAIN ctx[i]) =>
              ctx[i]["vcpkg_packages"] = SortedSeq(DOMAIN config.deps)
        /\ Generated(i) =>
              FoundPackages(cmake_content[i]) = SortedSeq(DOMAIN config.deps)

\* Two invocations with the same command line.
SameInputs(i, j) == args[i] = args[j]

\* C9: two runs on identical inputs give the same context and the same
\* text, whatever order the maps iterate in.
Deterministic ==
    \A i, j \in Inv :
        /\ (SameInputs(i, j) /\ Resolved(i) /\ Resolved(j)) => ctx[i] = ctx[j]
        /\ (SameInputs(i, j) /\ Generated(i) /\ Generated(j)) =>
              cmake_content[i] = cmake_content[j]

ToolchainLine ==
    <<"set(CMAKE_TOOLCHAIN_FILE \"$ENV{VCPKG_ROOT}/scripts/buildsystems/vcpkg.cmake\" CACHE STRING \"Vcpkg toolchain file\")">>

\* The header line of the link-libraries block: it ends after PRIVATE.
LinkLibsHeaders(text) ==
    {n \in LinesFrom(text, "target_link_libraries(") :
        text[n][Len(text[n])] = " PRIVATE "}

\* The find/link pair of package k starts at line n.
PairAt(text, n, k) ==
    /\ n + 1 <= Len(text)
    /\ text[n] = <<"find_package(">> \o k \o <<" REQUIRED)">>
    /\ text[n + 1][1] = "target_link_libraries("
    /\ SubSeq(text[n + 1], Len(text[n + 1]) - 2 * Len(k) - 1, Len(text[n + 1]))
           = k \o <<"::">> \o k \o <<")">>

\* C10: each block of the generated file is there iff what backs it is not
\* empty (or true): defines, compile flags, link libraries, link
\* directories, the toolchain line and one find/link pair per dependency,
\* the LTO toggle.
ConditionalEmission ==
    \A i \in Inv : Generated(i) =>
        LET text == cmake_content[i]
        IN  /\ LinesFrom(text, "target_compile_definitions(") # {}
                  <=> DOMAIN all_defines[i] # {}
            /\ Cardinality(LinesFrom(text, "target_compile_definitions("))
                  = Cardinality(DOMAIN all_defines[i])
            /\ LinesFrom(text, "target_compile_options(") # {}
                  <=> all_flags[i] # <<>>
            /\ LinkLibsHeaders(text) # {} <=> config.build.libs # <<>>
            /\ LinesFrom(text, "target_link_directories(") # {}
                  <=> config.build.lib_dirs # <<>>
            /\ (\E n \in 1..Len(text) : text[n] = ToolchainLine)
                  <=> DOMAIN config.deps # {}
            /\ Cardinality(LinesFrom(text, "find_package("))
                  = Cardinality(DOMAIN config.deps)
            /\ \A k \in DOMAIN config.deps :
                  \E n \in 1..Len(text) : PairAt(text, n, k)
            /\ Cardinality(LinesFrom(text, "target_link_libraries(")
                           \ LinkLibsHeaders(text))
                  = Cardinality(DOMAIN config.deps)
            /\ LinesFrom(text, "set_property(TARGET ") # {} <=> profile[i].lto

\* One file with every conditional block, another with none of them.
ConditionalEmissionWitness ==
    \E i, j \in Inv :
        /\ Generated(i) /\ Generated(j)
        /\ Cardinality(DOMAIN config.deps) = 2
        /\ config.build.libs # <<>> /\ config.build.lib_dirs # <<>>
        /\ all_flags[i] # <<>> /\ all_defines[i] # EmptyMap /\ profile[i].lto
        /\ Len(cmake_content[i]) > Len(cmake_content[j])
        /\ all_defines[j] = EmptyMap
        /\ LinesFrom(cmake_content[j], "target_compile_definitions(") = {}
        /\ LinesFrom(cmake_content[i], "target_compile_definitions(") # {}
        /\ LinesFrom(cmake_content[i], "set_property(TARGET ") # {}

-----------------------------------------------------------------------------
(* End to end: a descriptor that declares no profile *)

\* serde's defaults of the fields of ProfileConfig: what an empty
\* [profile.<name>] table gives.
ProfileFieldDefaults ==
    [opt_level |-> <<"2">>, debug |-> FALSE, lto |-> FALSE, strip |-> FALSE,
     flags |-> <<>>, defines |-> EmptyMap]

\* ProfileConfig::default().  ProfilesConfig derives Default, which takes the
\* Default of ProfileConfig for dev and for release; the source holds no such
\* impl, so its value is any of: the field-wise one a derive gives, serde's
\* field defaults, one of the two built-in profiles.
ProfileConfigDefaults ==
    {[opt_level |-> <<>>, debug |-> FALSE, lto |-> FALSE, strip |-> FALSE,
      flags |-> <<>>, defines |-> EmptyMap],
     ProfileFieldDefaults, default_dev_profile, default_release_profile}

\* #[serde(default)] pub profile: ProfilesConfig, for a document with no
\* [profile] table: ProfilesConfig::default(), dev and release alike.
AbsentProfileTable ==
    {[dev |-> z, release |-> z, custom |-> EmptyMap] : z \in ProfileConfigDefaults}

\* A [profile] table with nothing in it: the default functions of the fields.
EmptyProfileTable ==
    [dev |-> default_dev_profile, release |-> default_release_profile,
     custom |-> EmptyMap]

\* What a document that declares no profile of its own loads as.
UndeclaredProfiles == AbsentProfileTable \cup {EmptyProfileTable}

\* Descriptors with sources.dirs = ["src"], no [includes], no [build], no
\* features and no profile; two command lines that name dev or release.
InitEndToEnd ==
    /\ config \in
         {[BaseConfig EXCEPT !.type = t, !.language = l, !.std = sd,
                             !.includes.dirs = <<>>, !.deps = deps,
                             !.profile = pr] :
            t \in {<<"l","i","b">>, <<"e","x","e","c">>},
            l \in {<<"c","p","p">>, <<"c">>},
            sd \in {<<"1","7">>, <<>>},
            deps \in {EmptyMap, (D_fmt :> <<"*">>)},
            pr \in UndeclaredProfiles}
    /\ args \in [Inv -> {BuildArgs(m, <<>>, FALSE, FALSE) :
                           m \in {M_dev, M_release}}]
    /\ InitLocals

SpecEndToEnd == InitEndToEnd /\ [][Next]_vars

\* The descriptor of the end-to-end case, built for "release" with no
\* explicit features.
EndToEndCase(i) ==
    /\ config.type = <<"l","i","b">>
    /\ config.language = <<"c","p","p">>
    /\ config.std = <<"1","7">>
    /\ config.sources.dirs = <<S_src>>
    /\ config.deps = (D_fmt :> <<"*">>)
    /\ config.profile \in UndeclaredProfiles
    /\ args[i].mode = M_release
    /\ args[i].features = <<>>

-----------------------------------------------------------------------------
(* Manifest mutator: text *)

\* A document is its text: a sequence of characters, line breaks included.
\* Indexes are 1-based here where the source counts from 0.
NL == "\n"

Least(S) == CHOOSE x \in S : \A y \in S : x <= y

Greatest(S) == CHOOSE x \in S : \A y \in S : y <= x

\* str::lines: the pieces between line feeds, each without its line feed
\* and without a carriage return before it; a final line feed opens no
\* further line, and the empty text has no line.
RECURSIVE lines(_)
lines(text) ==
    IF text = <<>> THEN <<>>
    ELSE LET feeds == {k \in 1..Len(text) : text[k] = NL}
         IN  IF feeds = {} THEN <<text>>
             ELSE LET k == Least(feeds)
                      cr == k > 1 /\ text[k - 1] = "\r"
                  IN  <<SubSeq(text, 1, IF cr THEN k - 2 ELSE k - 1)>>
                      \o lines(SubSeq(text, k + 1, Len(text)))

\* char::is_whitespace, for the characters that occur.
is_whitespace(ch) == ch \in {" ", "\t", "\r", NL}

\* str::trim
trim(str) ==
    LET solid == {k \in 1..Len(str) : ~is_whitespace(str[k])}
    IN  IF solid = {} THEN <<>> ELSE SubSeq(str, Least(solid), Greatest(solid))

\* str::starts_with
starts_with(str, prefix) ==
    Len(prefix) <= Len(str) /\ SubSeq(str, 1, Len(prefix)) = prefix

\* str::ends_with
ends_with(str, suffix) ==
    /\ Len(suffix) <= Len(str)
    /\ SubSeq(str, Len(str) - Len(suffix) + 1, Len(str)) = suffix

\* [String]::join
RECURSIVE join(_, _)
join(strs, sep) ==
    IF strs = <<>> THEN <<>>
    ELSE IF Len(strs) = 1 THEN strs[1]
    ELSE strs[1] \o sep \o join(Tail(strs), sep)

InsertAtReplacing(vec, k, x) ==
    SubSeq(vec, 1, k - 1) \o <<x>> \o SubSeq(vec, k + 1, Len(vec))

\* Vec::insert: the element takes position k, what was there moves up.
InsertAt(vec, k, x) ==
    SubSeq(vec, 1, k - 1) \o <<x>> \o SubSeq(vec, k, Len(vec))

-----------------------------------------------------------------------------
(* Manifest mutator: add_dependencies_to_toml, remove_dependencies_from_toml *)

\* "[deps]"
DepsHeader == <<"[", "d", "e", "p", "s", "]">>

\* format!("{} = \"*\"", package)
dep_line(package) == package \o <<" ", "=", " ", "\"", "*", "\"">>

\* The positions of the lines that are the header once trimmed.
HeaderLines(ls) == {i \in 1..Len(ls) : trim(ls[i]) = DepsHeader}

WithHeaderNoBlank(ls) ==
    IF HeaderLines(ls) = {} THEN ls \o <<DepsHeader>> ELSE ls

\* Lines 68-76: a document without the header gets an empty line and the
\* header at its end.
WithHeader(ls) ==
    IF HeaderLines(ls) = {} THEN ls \o <<<<>>, DepsHeader>> ELSE ls

\* Lines 61-76: the first header line, or the one just pushed.
DepsIndex(ls) ==
    IF HeaderLines(ls) = {} THEN Len(WithHeader(ls))
    ELSE Least(HeaderLines(ls))

ContinuesRunNever(str) == FALSE

\* Lines 85-92: an entry continues the run; a section header, an empty line
\* and a comment end it.
ContinuesRun(str) ==
    LET line == trim(str)
    IN  /\ ~(starts_with(line, <<"[">>) /\ ends_with(line, <<"]">>))
        /\ line # <<>>
        /\ ~starts_with(line, <<"#">>)

\* Lines 82-93: the first position from k on that does not continue the run.
RECURSIVE RunEnd(_, _)
RunEnd(ls, k) ==
    IF k <= Len(ls) /\ ContinuesRun(ls[k]) THEN RunEnd(ls, k + 1) ELSE k

\* Lines 96-106: the run's lines, trimmed, without empty lines and comments.
ExistingDeps(ls, deps_index, insert_index) ==
    SelectSeq([k \in 1..(insert_index - deps_index - 1) |->
                 trim(ls[deps_index + k])],
              LAMBDA t : t # <<>> /\ ~starts_with(t, <<"#">>))

PresentExact(existing_deps, package) ==
    \E k \in 1..Len(existing_deps) :
        existing_deps[k] = dep_line(package)

\* Line 112: existing_deps.iter().any(|d| d.starts_with(package))
Present(existing_deps, package) ==
    \E k \in 1..Len(existing_deps) : starts_with(existing_deps[k], package)

NextIndexStuck(insert_index) == insert_index

\* Line 114: insert_index += 1
NextIndex(insert_index) == insert_index + 1

\* Lines 109-117: one line per package not judged present, each after the
\* one before.
RECURSIVE InsertPackages(_, _, _, _)
InsertPackages(ls, insert_index, existing_deps, packages) ==
    IF packages = <<>> THEN ls
    ELSE IF ~Present(existing_deps, Head(packages))
    THEN InsertPackages(InsertAt(ls, insert_index, dep_line(Head(packages))),
                        NextIndex(insert_index), existing_deps, Tail(packages))
    ELSE InsertPackages(ls, insert_index, existing_deps, Tail(packages))

\* add_dependencies_to_toml
add_dependencies_to_toml(toml_content, packages) ==
    LET ls == WithHeader(lines(toml_content))
        deps_index == DepsIndex(lines(toml_content))
        insert_index == RunEnd(ls, deps_index + 1)
        existing_deps == ExistingDeps(ls, deps_index, insert_index)
    IN  join(InsertPackages(ls, insert_index, existing_deps, packages), <<NL>>)
        \o <<NL>>

DroppedUntrimmed(line, packages) ==
    \E k \in 1..Len(packages) : starts_with(line, packages[k])

DroppedFirstOnly(line, packages) ==
    packages # <<>> /\ starts_with(trim(line), packages[1])

\* Lines 44-46: the line, trimmed, starts with one of the packages.
Dropped(line, packages) ==
    \E k \in 1..Len(packages) : starts_with(trim(line), packages[k])

\* remove_dependencies_from_toml
remove_dependencies_from_toml(toml_content, packages) ==
    join(SelectSeq(lines(toml_content), LAMBDA l : ~Dropped(l, packages)),
         <<NL>>) \o <<NL>>

-----------------------------------------------------------------------------
(* Manifest mutator: the add and remove commands *)

\* How an external process ends: exit status zero, another exit status, or
\* it could not be started.
Outcomes == {"ok", "nonzero", "noexec"}

\* The package the loop over the request is at.
Current(c) == cmd[c].packages[Len(ran[c]) + 1]

\* The loop over the request has packages left.
MorePackages(c) == Len(ran[c]) < Len(cmd[c].packages)

AfterInstallIgnored(outcome) == "install"

\* add.rs 32-42: a package that cannot be installed ends the command.
AfterInstall(outcome) == IF outcome = "ok" THEN "install" ELSE "failed"

\* remove.rs 21-28: only a vcpkg that cannot be started ends the command;
\* its exit status decides a message and nothing else.
AfterUninstall(outcome) == IF outcome = "noexec" THEN "failed" ELSE "uninstall"

\* add.rs 7-27: the request is not empty, vcpkg can be started,
\* project.toml is there and is read.
AddBegin(c) ==
    /\ mpc[c] = "idle"
    /\ cmd[c].op = "add"
    /\ \E vcpkg_check \in {"ok", "noexec"} :
         IF cmd[c].packages = <<>> \/ vcpkg_check = "noexec"
         THEN /\ mpc' = [mpc EXCEPT ![c] = "failed"]
              /\ UNCHANGED project_toml
         ELSE /\ mpc' = [mpc EXCEPT ![c] = "install"]
              /\ project_toml' = [project_toml EXCEPT ![c] = file]
    /\ UNCHANGED <<file, cmd, updated_toml, ran>>
    /\ UNCHANGED <<build_vars, pipeline_vars, collab_vars>>

\* add.rs 30-43: vcpkg install of the next package.
AddInstall(c) ==
    /\ mpc[c] = "install"
    /\ MorePackages(c)
    /\ \E outcome \in Outcomes :
         /\ ran' = [ran EXCEPT ![c] = Append(@, <<Current(c), outcome>>)]
         /\ mpc' = [mpc EXCEPT ![c] = AfterInstall(outcome)]
    /\ UNCHANGED <<file, cmd, project_toml, updated_toml>>
    /\ UNCHANGED <<build_vars, pipeline_vars, collab_vars>>

TextToEditFresh(read, on_disk) == on_disk

\* add.rs 26 and 46, remove.rs 32-33: the text edited is the String read
\* before, whatever project.toml holds by the time of the write.
TextToEdit(read, on_disk) == read

\* add.rs 46-50: edit the text read at the start and write it.
AddWrite(c) ==
    /\ mpc[c] = "install"
    /\ ~MorePackages(c)
    /\ LET text == add_dependencies_to_toml(TextToEdit(project_toml[c], file),
                                            cmd[c].packages)
       IN  /\ updated_toml' = [updated_toml EXCEPT ![c] = text]
           /\ file' = text
    /\ mpc' = [mpc EXCEPT ![c] = "done"]
    /\ UNCHANGED <<cmd, project_toml, ran>>
    /\ UNCHANGED <<build_vars, pipeline_vars, collab_vars>>

\* remove.rs 8-14: the request is not empty and project.toml is there.
RemoveBegin(c) ==
    /\ mpc[c] = "idle"
    /\ cmd[c].op = "remove"
    /\ mpc' = [mpc EXCEPT ![c] =
                 IF cmd[c].packages = <<>> THEN "failed" ELSE "uninstall"]
    /\ UNCHANGED <<file, cmd, project_toml, updated_toml, ran>>
    /\ UNCHANGED <<build_vars, pipeline_vars, collab_vars>>

\* remove.rs 18-29: vcpkg remove of the next package.
RemoveUninstall(c) ==
    /\ mpc[c] = "uninstall"
    /\ MorePackages(c)
    /\ \E outcome \in Outcomes :
         /\ ran' = [ran EXCEPT ![c] = Append(@, <<Current(c), outcome>>)]
         /\ mpc' = [mpc EXCEPT ![c] = AfterUninstall(outcome)]
    /\ UNCHANGED <<file, cmd, project_toml, updated_toml>>
    /\ UNCHANGED <<build_vars, pipeline_vars, collab_vars>>

\* remove.rs 32: read project.toml.
RemoveRead(c) ==
    /\ mpc[c] = "uninstall"
    /\ ~MorePackages(c)
    /\ project_toml' = [project_toml EXCEPT ![c] = file]
    /\ mpc' = [mpc EXCEPT ![c] = "read"]
    /\ UNCHANGED <<file, cmd, updated_toml, ran>>
    /\ UNCHANGED <<build_vars, pipeline_vars, collab_vars>>

\* remove.rs 33-36: edit the text and write it.
RemoveWrite(c) ==
    /\ mpc[c] = "read"
    /\ LET text == remove_dependencies_from_toml(
                       TextToEdit(project_toml[c], file), cmd[c].packages)
       IN  /\ updated_toml' = [updated_toml EXCEPT ![c] = text]
           /\ file' = text
    /\ mpc' = [mpc EXCEPT ![c] = "done"]
    /\ UNCHANGED <<cmd, project_toml, ran>>
    /\ UNCHANGED <<build_vars, pipeline_vars, collab_vars>>

NextMutator ==
    \E c \in Proc :
        \/ AddBegin(c) \/ AddInstall(c) \/ AddWrite(c)
        \/ RemoveBegin(c) \/ RemoveUninstall(c) \/ RemoveRead(c)
        \/ RemoveWrite(c)

-----------------------------------------------------------------------------
(* Inputs: documents and requests *)

\* The most lines of a document.
MaxLines == 3

P_foo == <<"f", "o", "o">>

P_zlib == <<"z", "l", "i", "b">>

P_fmt == <<"f", "m", "t">>

\* The packages asked for.
PackageNames == {P_foo, P_zlib, P_fmt}

\* Requests of two packages, alike or not.
RequestPairs == {<<a, b>> : a \in PackageNames, b \in PackageNames}

\* zora add / zora remove with no package, with one, with two.
Requests == {<<>>} \cup {<<a>> : a \in PackageNames} \cup RequestPairs

\* The lines documents are made of: the header, an indented entry, an entry
\* whose key starts with "foo", an empty line, a comment, another section's
\* header.
L_zlib == <<" ">> \o P_zlib \o <<" ", "=", " ", "\"", "1", "\"">>

L_foobar == P_foo \o <<"b", "a", "r", " ", "=", " ", "\"", "1", "\"">>

L_comment == <<"#", " ", "c">>

L_build == <<"[", "b", "u", "i", "l", "d", "]">>

DocLines == {DepsHeader, L_zlib, L_foobar, <<>>, L_comment, L_build}

\* The documents of up to MaxLines lines, the last of them with or without
\* its line feed (a last empty line is a final line feed).
Documents == {join(ls, <<NL>>) : ls \in SeqsUpTo(DocLines, MaxLines)}

\* The descriptor and the command lines of the build command where only add
\* and remove run.
InitNoBuild ==
    /\ config = BaseConfig
    /\ args = [i \in Inv |-> BuildArgs(M_dev, <<>>, FALSE, FALSE)]
    /\ InitBuildLocals
    /\ InitPipeline

\* No add or remove command runs.
InitNoMutator ==
    /\ file = <<>>
    /\ cmd = [c \in Proc |-> NoCommand]
    /\ InitMutatorLocals({})

\* One add or remove command on any document, with any request.
InitMutator ==
    /\ InitNoBuild
    /\ InitCollaborators
    /\ file \in Documents
    /\ InitMutatorLocals({1})
    /\ \E op \in {"add", "remove"}, packages \in Requests :
         cmd = [c \in Proc |-> IF c = 1 THEN [op |-> op, packages |-> packages]
                                ELSE NoCommand]

SpecMutator == InitMutator /\ [][NextMutator]_vars

-----------------------------------------------------------------------------
(* Manifest mutator: properties of the edited text *)

\* Command c is an add that has written its text.
AddDone(c) == mpc[c] = "done" /\ cmd[c].op = "add"

\* Command c is a remove that has written its text.
RemoveDone(c) == mpc[c] = "done" /\ cmd[c].op = "remove"

\* The lines of the text command c read and of the text it wrote.
LinesIn(c) == lines(project_toml[c])

LinesOut(c) == lines(updated_toml[c])

\* The entry lines of a request, in its order.
DepLines(packages) == [k \in 1..Len(packages) |-> dep_line(packages[k])]

\* No two places of s hold the same value.
Distinct(s) == \A j, k \in 1..Len(s) : s[j] = s[k] => j = k

\* The text ends with one line feed and not with two.
EndsWithOneNewline(text) ==
    /\ Len(text) >= 1 /\ text[Len(text)] = NL
    /\ ~(Len(text) >= 2 /\ text[Len(text) - 1] = NL)

\* C12: for a document without a header line and a request of distinct
\* names, add returns the original lines, an empty line, the header and one
\* entry line per name in the order of the request, ending with one line
\* feed.
HeaderAppended ==
    \A c \in Proc :
        (AddDone(c) /\ HeaderLines(LinesIn(c)) = {}
                    /\ Distinct(cmd[c].packages)) =>
            /\ LinesOut(c) = LinesIn(c) \o <<<<>>, DepsHeader>>
                                        \o DepLines(cmd[c].packages)
            /\ EndsWithOneNewline(updated_toml[c])

HeaderAppendedWitness ==
    \E c \in Proc :
        /\ AddDone(c) /\ HeaderLines(LinesIn(c)) = {}
        /\ LinesIn(c) # <<>>
        /\ Len(cmd[c].packages) = 2 /\ Distinct(cmd[c].packages)

\* C13: the text add_dependencies_to_toml and remove_dependencies_from_toml
\* return ends with one line feed and not with two.
OneTrailingNewline ==
    \A c \in Proc : mpc[c] = "done" =>
        LET n == Len(updated_toml[c])
        IN  /\ n >= 1 /\ updated_toml[c][n] = NL
            /\ ~(n >= 2 /\ updated_toml[c][n - 1] = NL)

\* The input lines of an add with the empty line and the header it pushes
\* when the document has none.
Base(c) ==
    IF HeaderLines(LinesIn(c)) = {} THEN LinesIn(c) \o <<<<>>, DepsHeader>>
    ELSE LinesIn(c)

\* A line that ends the run of entries: empty, a comment, a section header.
EndsRun(str) ==
    \/ trim(str) = <<>>
    \/ trim(str)[1] = "#"
    \/ trim(str)[1] = "[" /\ trim(str)[Len(trim(str))] = "]"

\* The position of the header an add works from.
HeaderAt(c) == Least(HeaderLines(Base(c)))

\* The position after the run of entries that follows the header.
RunEndAt(c) ==
    Least({k \in (HeaderAt(c) + 1)..(Len(Base(c)) + 1) :
             k = Len(Base(c)) + 1 \/ EndsRun(Base(c)[k])})

\* The k-th smallest member of a set of numbers.
Kth(S, k) == CHOOSE x \in S : Cardinality({y \in S : y <= x}) = k

\* The members of s at the positions S, in the order of s.
Pick(s, S) == [k \in 1..Cardinality(S) |-> s[Kth(S, k)]]

\* C15: add puts its new entry lines together, right after the run of
\* entries that follows the header, in the order of the request, and leaves
\* the lines before and after as they were.
InsertedAtRunEnd ==
    \A c \in Proc : AddDone(c) =>
        \E S \in SUBSET (1..Len(cmd[c].packages)) :
            LinesOut(c) = SubSeq(Base(c), 1, RunEndAt(c) - 1)
                          \o DepLines(Pick(cmd[c].packages, S))
                          \o SubSeq(Base(c), RunEndAt(c), Len(Base(c)))

InsertedAtRunEndWitness ==
    \E c \in Proc :
        /\ AddDone(c)
        /\ RunEndAt(c) > HeaderAt(c) + 1
        /\ RunEndAt(c) <= Len(Base(c))
        /\ cmd[c].packages = <<P_zlib, P_fmt>>
        /\ Len(LinesOut(c)) = Len(Base(c)) + 2

\* An entry of the run after the header starts with the name.
JudgedPresent(c, name) ==
    \E k \in (HeaderAt(c) + 1)..(RunEndAt(c) - 1) :
        starts_with(trim(Base(c)[k]), name)

\* C16: add inserts a line for a requested name exactly when no entry of
\* the run after the header starts with the name: a name judged present
\* gets no line, every other place of the request gets one.
InsertedIffAbsent ==
    \A c \in Proc : AddDone(c) =>
        /\ \A name \in Range(cmd[c].packages) :
             Count(LinesOut(c), dep_line(name))
               = Count(Base(c), dep_line(name))
                 + (IF JudgedPresent(c, name) THEN 0
                    ELSE Count(cmd[c].packages, name))
        /\ Len(LinesOut(c)) = Len(Base(c))
             + Cardinality({k \in 1..Len(cmd[c].packages) :
                              ~JudgedPresent(c, cmd[c].packages[k])})

InsertedIffAbsentWitness ==
    \E c \in Proc :
        /\ AddDone(c)
        /\ cmd[c].packages = <<P_foo, P_zlib>>
        /\ JudgedPresent(c, P_foo) /\ ~JudgedPresent(c, P_zlib)
        /\ \E k \in (HeaderAt(c) + 1)..(RunEndAt(c) - 1) :
             Base(c)[k] = L_foobar

\* The positions of the input lines a remove keeps.
KeptAt(c) ==
    {k \in 1..Len(LinesIn(c)) :
       \A name \in Range(cmd[c].packages) :
          ~starts_with(trim(LinesIn(c)[k]), name)}

\* C17 as stated: remove returns the input lines that start with no
\* requested name, in their order, and adds no line.
RemoveKeepsExactly ==
    \A c \in Proc : RemoveDone(c) => LinesOut(c) = Pick(LinesIn(c), KeptAt(c))

\* C17: remove returns the input lines that start with no requested name,
\* in their order and unchanged; it adds no line when it keeps one, and
\* returns a single empty line when it keeps none.
RemoveKeepsOrBlank ==
    \A c \in Proc : RemoveDone(c) =>
        LinesOut(c) = IF KeptAt(c) = {} THEN <<<<>>>>
                      ELSE Pick(LinesIn(c), KeptAt(c))

RemoveKeepsOrBlankWitness ==
    \E c \in Proc :
        /\ RemoveDone(c)
        /\ KeptAt(c) # {}
        /\ \E k \in 1..Len(LinesIn(c)) : k \notin KeptAt(c) /\ k < HeaderAt(c)

-----------------------------------------------------------------------------
(* Manifest mutator: one command after or beside another *)

\* The text before the first "=" of an entry, trimmed: its key.
KeyOf(str) ==
    LET eq == {k \in 1..Len(str) : str[k] = "="}
    IN  IF eq = {} THEN trim(str) ELSE trim(SubSeq(str, 1, Least(eq) - 1))

\* A line that opens a section.
IsSectionHeader(str) ==
    trim(str) # <<>> /\ trim(str)[1] = "[" /\ trim(str)[Len(trim(str))] = "]"

\* The positions of the entries of the dependency section of a text: the
\* lines from its first header line to the next section header that are
\* neither empty nor comments.
EntriesAt(text) ==
    LET ls == lines(text)
    IN  IF HeaderLines(ls) = {} THEN {}
        ELSE LET h == Least(HeaderLines(ls))
                 e == Least({k \in (h + 1)..(Len(ls) + 1) :
                               k = Len(ls) + 1 \/ IsSectionHeader(ls[k])})
             IN  {k \in (h + 1)..(e - 1) :
                    trim(ls[k]) # <<>> /\ trim(ls[k])[1] # "#"}

\* The entries of the dependency section of a text, trimmed.
Entries(text) == {trim(lines(text)[k]) : k \in EntriesAt(text)}

\* No two entries of the dependency section of a text have the same key.
UniqueKeys(text) ==
    \A j, k \in EntriesAt(text) :
        KeyOf(lines(text)[j]) = KeyOf(lines(text)[k]) => j = k

\* Documents of a header and entries, each key once, and two commands with
\* the same request of two packages: an add, and a second add or a remove.
InitSequence ==
    /\ InitNoBuild
    /\ InitCollaborators
    /\ file \in {d \in Documents :
                   /\ Range(lines(d)) \subseteq {DepsHeader, L_zlib, L_foobar}
                   /\ UniqueKeys(d)}
    /\ InitMutatorLocals(Proc)
    /\ \E op \in {"add", "remove"}, packages \in RequestPairs :
         cmd = [c \in Proc |->
                  [op |-> IF c = 1 THEN "add" ELSE op, packages |-> packages]]

SpecSequence == InitSequence /\ [][NextMutator]_vars

\* Command 1 added a and b to a document and command 2 then removed a and b
\* from what command 1 wrote.
AddedThenRemoved ==
    /\ AddDone(1) /\ RemoveDone(2)
    /\ project_toml[2] = updated_toml[1]

\* C14 as stated: removing a and b after adding them gives back the entries
\* of the dependency section, when neither name starts an entry of another
\* key.
RoundTrip ==
    (/\ AddedThenRemoved
     /\ \A name \in Range(cmd[1].packages), e \in Entries(project_toml[1]) :
          starts_with(e, name) => KeyOf(e) = name)
    => Entries(updated_toml[2]) = Entries(project_toml[1])

\* C14: removing a and b after adding them gives back the entries of the
\* dependency section, when neither name starts an entry that was there,
\* an entry of the name itself included.
RoundTripOfNewNames ==
    (/\ AddedThenRemoved
     /\ \A name \in Range(cmd[1].packages), e \in Entries(project_toml[1]) :
          ~starts_with(e, name))
    => Entries(updated_toml[2]) = Entries(project_toml[1])

RoundTripOfNewNamesWitness ==
    /\ AddedThenRemoved
    /\ cmd[1].packages = <<P_zlib, P_zlib>>
    /\ Entries(project_toml[1]) = {L_foobar}
    /\ Entries(updated_toml[1]) # Entries(project_toml[1])
    /\ Entries(updated_toml[2]) = {L_foobar}

\* C18: the entries of the dependency section of project.toml keep distinct
\* keys whatever adds and removes run.
KeysStayUnique == UniqueKeys(file)

-----------------------------------------------------------------------------
(* The add command: installs before the write *)

\* Command c took the step.
Stepped(c) == mpc'[c] # mpc[c] \/ ran'[c] # ran[c]

\* C20: an add whose install of a package fails (vcpkg does not start or
\* exits non-zero) ends there: it installs no later package and never
\* writes project.toml, which only the last step of an add with every
\* install successful changes.
AddAbortsOnFailedInstall ==
    /\ [](\A c \in Proc : cmd[c].op = "add" =>
            /\ \A k \in 1..(Len(ran[c]) - 1) : ran[c][k][2] = "ok"
            /\ \A k \in 1..Len(ran[c]) : ran[c][k][1] = cmd[c].packages[k]
            /\ (ran[c] # <<>> /\ ran[c][Len(ran[c])][2] # "ok")
                 => mpc[c] = "failed" /\ updated_toml[c] = <<>>
            /\ mpc[c] = "done"
                 => /\ Len(ran[c]) = Len(cmd[c].packages)
                    /\ \A k \in 1..Len(ran[c]) : ran[c][k][2] = "ok")
    /\ [][\A c \in Proc : (cmd[c].op = "add" /\ Stepped(c)) =>
            \/ file' = file
            \/ mpc'[c] = "done"]_vars

AddAbortsOnFailedInstallWitness ==
    \E c \in Proc :
        /\ cmd[c].op = "add" /\ mpc[c] = "failed"
        /\ Len(cmd[c].packages) = 2
        /\ Len(ran[c]) = 1 /\ ran[c][1][2] = "nonzero"
        /\ file = project_toml[c]

-----------------------------------------------------------------------------
(* The build command after the build file is written *)

ConfigureNextIgnored(outcome) == "configured"

\* The exit codes an external tool can end with: zero for success, one of
\* the others for a failure, none (-1) when it did not start.
ExitCodes(outcome) ==
    IF outcome = "ok" THEN {0}
    ELSE IF outcome = "nonzero" THEN {1, 2}
    ELSE {-1}

\* build.rs 243-248: cmake that does not start, or exits non-zero, ends the
\* command with an error.
ConfigureNext(outcome) == IF outcome = "ok" THEN "configured" ELSE "failed"

\* build.rs 268-273: the same for cmake --build.
BuildNext(outcome) == IF outcome = "ok" THEN "built" ELSE "failed"

\* build.rs 226-248: cmake -S .build/<mode> -B .build/<mode>
Configure(i) ==
    /\ pc[i] = "generated"
    /\ \E outcome \in Outcomes :
         /\ configure_status' = [configure_status EXCEPT ![i] = outcome]
         /\ pc' = [pc EXCEPT ![i] = ConfigureNext(outcome)]
         /\ \E code \in ExitCodes(outcome) :
              tool_code' = [tool_code EXCEPT ![i] = code]
    /\ steps' = [steps EXCEPT ![i] = Append(@, "configure")]
    /\ UNCHANGED <<config, args, profile, enabled_features, all_flags,
                   all_defines, ctx, cmake_content, build_dir>>
    /\ UNCHANGED <<build_status, artifacts, target_dir, compile_commands,
                   exit_code>>
    /\ UNCHANGED <<mutator_vars, collab_vars>>

BuiltFromOwn(dir, own, mode) == own

\* build.rs 250-254: cmake --build is given the directory .build/<mode>
\* only; what it builds is the build file that is there when it runs.
BuiltFrom(dir, own, mode) == dir[mode]

\* build.rs 250-273: cmake --build .build/<mode>; a build that succeeds
\* leaves in .build/<mode> the artifact of the build file that is there.
CMakeBuild(i) ==
    /\ pc[i] = "configured"
    /\ \E outcome \in Outcomes :
         /\ build_status' = [build_status EXCEPT ![i] = outcome]
         /\ pc' = [pc EXCEPT ![i] = BuildNext(outcome)]
         /\ artifacts' = IF outcome = "ok"
                         THEN (args[i].mode :>
                                 BuiltFrom(build_dir, cmake_content[i],
                                           args[i].mode))
                              @@ artifacts
                         ELSE artifacts
         /\ \E code \in ExitCodes(outcome) :
              tool_code' = [tool_code EXCEPT ![i] = code]
    /\ steps' = [steps EXCEPT ![i] = Append(@, "build")]
    /\ UNCHANGED <<config, args, profile, enabled_features, all_flags,
                   all_defines, ctx, cmake_content, build_dir>>
    /\ UNCHANGED <<configure_status, target_dir, compile_commands,
                   exit_code>>
    /\ UNCHANGED <<mutator_vars, collab_vars>>

\* build.rs 275-340: copy the artifact that is in .build/<mode> to
\* target/<mode>, then replace the compile_commands.json link when
\* .build/<mode> has that file.
Collect(i) ==
    /\ pc[i] = "built"
    /\ LET mode == args[i].mode
           built == mode \in DOMAIN artifacts
       IN  /\ target_dir' = IF built THEN (mode :> artifacts[mode]) @@ target_dir
                            ELSE target_dir
           /\ steps' = [steps EXCEPT ![i] =
                          @ \o (IF built THEN <<"collect", "copy">>
                                ELSE <<"collect">>)]
           /\ \E src_exists \in BOOLEAN :
                compile_commands' = IF src_exists
                                    THEN [some |-> TRUE, val |-> mode]
                                    ELSE None
    /\ pc' = [pc EXCEPT ![i] = "done"]
    /\ UNCHANGED <<config, args, profile, enabled_features, all_flags,
                   all_defines, ctx, cmake_content, build_dir>>
    /\ UNCHANGED <<configure_status, build_status, artifacts, exit_code,
                   tool_code>>
    /\ UNCHANGED <<mutator_vars, collab_vars>>

\* std::process::Termination for Result: ExitCode::SUCCESS for Ok(()),
\* ExitCode::FAILURE after printing the error for Err.
MainExit(result) == IF result = "done" THEN 0 ELSE 1

\* main.rs 296-313 and 448-450: run's error leaves main through `?`, its
\* Ok(()) reaches main's own Ok(()).
MainReturn(i) ==
    /\ pc[i] \in {"done", "failed"}
    /\ exit_code[i] = -1
    /\ exit_code' = [exit_code EXCEPT ![i] = MainExit(pc[i])]
    /\ UNCHANGED <<build_vars, mutator_vars, collab_vars>>
    /\ UNCHANGED <<steps, configure_status, build_status, artifacts,
                   target_dir, compile_commands, tool_code>>

NextBuild ==
    \E i \in Inv :
        \/ Resolve(i) \/ Generate(i)
        \/ Configure(i) \/ CMakeBuild(i) \/ Collect(i)
        \/ MainReturn(i)

\* A library or an executable with one dependency, built twice, each time
\* for dev or for release.
InitBuild ==
    /\ config \in {[BaseConfig EXCEPT !.type = t, !.deps = (D_fmt :> <<"*">>)] :
                     t \in {<<"l","i","b">>, <<"e","x","e","c">>}}
    /\ args \in [Inv -> {BuildArgs(m, <<>>, FALSE, FALSE) :
                           m \in {M_dev, M_release}}]
    /\ InitLocals

SpecBuild == InitBuild /\ [][NextBuild]_vars

\* The steps of a build command, in their order.
StepOrder == <<"write", "configure", "build", "collect", "copy">>

\* C19: a build command writes the build file, then runs configure, then
\* the build, then collects; it runs the build only after a configure with
\* exit status zero, copies an artifact only after both exited with zero,
\* and fails when configure exits non-zero.
BuildStepsInOrder ==
    \A i \in Inv :
        /\ Len(steps[i]) <= Len(StepOrder)
        /\ steps[i] = SubSeq(StepOrder, 1, Len(steps[i]))
        /\ "build" \in Range(steps[i]) => configure_status[i] = "ok"
        /\ "copy" \in Range(steps[i])
             => configure_status[i] = "ok" /\ build_status[i] = "ok"
        /\ configure_status[i] = "nonzero"
             => pc[i] = "failed" /\ build_status[i] = "none"

BuildStepsInOrderWitness ==
    /\ pc[1] = "done" /\ "copy" \in Range(steps[1])
    /\ pc[2] = "failed" /\ configure_status[2] = "nonzero"
    /\ args[1].mode = args[2].mode

-----------------------------------------------------------------------------
(* The remove command: a package vcpkg does not remove *)

\* C21: a remove whose vcpkg exits non-zero for a package ends there with
\* an error: it is the last package it runs vcpkg for, and the command
\* never writes project.toml.
RemoveAbortsOnFailedUninstall ==
    \A c \in Proc :
        (cmd[c].op = "remove" /\ \E k \in 1..Len(ran[c]) : ran[c][k][2] = "nonzero")
        => /\ mpc[c] = "failed"
           /\ ran[c][Len(ran[c])][2] = "nonzero"
           /\ updated_toml[c] = <<>>

-----------------------------------------------------------------------------
(* The exit code of the build command *)

\* C22: the process exits with zero when the build command succeeds and
\* with non-zero when a step fails, and with the exit code of configure or
\* of the build when that is the step that failed.
ExitCodePropagated ==
    \A i \in Inv : exit_code[i] # -1 =>
        /\ pc[i] = "done" => exit_code[i] = 0
        /\ pc[i] = "failed" => exit_code[i] # 0
        /\ (pc[i] = "failed" /\ tool_code[i] > 0) => exit_code[i] = tool_code[i]

-----------------------------------------------------------------------------
(* The collaborators that run a tool on each candidate file *)

\* The most candidate files.
MaxFiles == 3

\* What the tool makes of a file: nothing to report, a failure (a syntax
\* error for check, a warning or an error for lint, a file that needs
\* formatting for fmt --check, a test that does not compile or does not
\* pass for test), or the tool does not start.
FileOutcomes == {"pass", "fail", "noexec"}

\* The tool a collaborator asks for its version before it looks for files:
\* fmt.rs 14-20, lint.rs 13-19, check.rs 20-35; test.rs has no such step.
HasVersionCheck(t) == t # "test"

\* The end of the command once every file is processed: check.rs 86-92,
\* test.rs 119-123, fmt.rs 103-113 (with --check) fail on a counter above
\* zero; lint.rs 63-72 prints the counter and returns Ok(()).
ToolResult(t, errors) ==
    IF t = "lint" THEN "ok"
    ELSE IF errors > 0 THEN "err" ELSE "ok"

\* The start of a collaborator: the version check, then the walk that
\* finds the candidate files (none: nothing to do).
ToolBegin(t) ==
    /\ collab[t].state = "idle"
    /\ \E found \in BOOLEAN :
         collab' = [collab EXCEPT ![t].state =
                      IF HasVersionCheck(t) /\ ~found THEN "err"
                      ELSE IF collab[t].files = 0 THEN "ok"
                      ELSE "running"]
    /\ UNCHANGED <<build_vars, pipeline_vars, mutator_vars>>
    /\ UNCHANGED <<features_cmd, watch, mtime, clock>>

\* One turn of the loop over the files: check.rs 59-84, lint.rs 41-61,
\* test.rs 63-111, fmt.rs 75-101.  A tool that does not start ends the
\* command through `?`; a failure is counted and the loop goes on.
ToolFile(t) ==
    /\ collab[t].state = "running"
    /\ Len(collab[t].seen) < collab[t].files
    /\ \E outcome \in FileOutcomes :
         collab' = [collab EXCEPT
                      ![t].seen = Append(@, outcome),
                      ![t].errors = IF outcome = "fail" THEN @ + 1 ELSE @,
                      ![t].state = IF outcome = "noexec" THEN "err" ELSE @]
    /\ UNCHANGED <<build_vars, pipeline_vars, mutator_vars>>
    /\ UNCHANGED <<features_cmd, watch, mtime, clock>>

\* After the last file.
ToolEnd(t) ==
    /\ collab[t].state = "running"
    /\ Len(collab[t].seen) = collab[t].files
    /\ collab' = [collab EXCEPT
                    ![t].state = ToolResult(t, collab[t].errors)]
    /\ UNCHANGED <<build_vars, pipeline_vars, mutator_vars>>
    /\ UNCHANGED <<features_cmd, watch, mtime, clock>>

NextCollab == \E t \in Tools : ToolBegin(t) \/ ToolFile(t) \/ ToolEnd(t)

\* One collaborator with up to MaxFiles candidate files.
InitCollab ==
    /\ InitNoBuild
    /\ InitNoMutator
    /\ features_cmd = NoFeatureCommand
    /\ InitNoWatch
    /\ \E tool \in Tools, n \in 0..MaxFiles :
         collab = [t \in Tools |->
                     IF t = tool THEN [ToolOff EXCEPT !.state = "idle",
                                                      !.files = n]
                     ELSE ToolOff]

SpecCollab == InitCollab /\ [][NextCollab]_vars

\* C23: fmt --check, lint, test and check go through every candidate file
\* whatever fails, count the files that failed, and end with one failure
\* after the last file when the count is above zero, with success when it
\* is zero.
AggregateFailure ==
    \A t \in Tools :
        LET fails == Count(collab[t].seen, "fail")
        IN  /\ collab[t].errors = fails
            /\ collab[t].state = "ok"
                 => Len(collab[t].seen) = collab[t].files /\ fails = 0
            /\ (collab[t].state = "err" /\ fails > 0
                   /\ Count(collab[t].seen, "noexec") = 0)
                 => Len(collab[t].seen) = collab[t].files
            /\ (collab[t].state \in {"ok", "err"} /\ fails > 0)
                 => collab[t].state = "err"

-----------------------------------------------------------------------------
(* features enable / disable, and every command on one project root *)

DocumentAfterFeatureListed(op, feature, text) ==
    text \o <<NL>> \o feature

\* features.rs 27-39: enable and disable print a line per feature and touch
\* nothing; project.toml stays as it is.
DocumentAfterFeature(op, feature, text) == text

\* One turn of the loop of enable or of disable.
FeaturePrint ==
    /\ features_cmd.op \in {"enable", "disable"}
    /\ features_cmd.printed < Len(features_cmd.features)
    /\ features_cmd' = [features_cmd EXCEPT !.printed = @ + 1]
    /\ file' = DocumentAfterFeature(features_cmd.op,
                 features_cmd.features[features_cmd.printed + 1], file)
    /\ UNCHANGED <<mpc, cmd, project_toml, updated_toml, ran>>
    /\ UNCHANGED <<build_vars, pipeline_vars>>
    /\ UNCHANGED <<collab, watch, mtime, clock>>

\* Builds, adds, removes and features enable / disable in any order.
NextFrame == NextBuild \/ NextMutator \/ FeaturePrint

\* project.toml with a dependency; two builds, one add or remove of one
\* package, and features enable or disable of one or two features.
InitFrame ==
    /\ config = [BaseConfig EXCEPT !.deps = (D_zlib :> <<"1">>)]
    /\ args = [i \in Inv |-> BuildArgs(M_dev, <<>>, FALSE, FALSE)]
    /\ InitBuildLocals
    /\ InitPipeline
    /\ file = join(<<DepsHeader, L_zlib>>, <<NL>>) \o <<NL>>
    /\ InitMutatorLocals({1})
    /\ \E op \in {"add", "remove"}, package \in {P_zlib, P_fmt} :
         cmd = [c \in Proc |-> IF c = 1 THEN [op |-> op, packages |-> <<package>>]
                                ELSE NoCommand]
    /\ collab = [t \in Tools |-> ToolOff]
    /\ \E op \in {"enable", "disable"}, fs \in {<<F_c>>, <<F_c, F_d>>} :
         features_cmd = [op |-> op, features |-> fs, printed |-> 0]
    /\ InitNoWatch

SpecFrame == InitFrame /\ [][NextFrame]_vars

\* C24: a step of a build or of features enable / disable leaves
\* project.toml as it is, whether the command succeeds or fails; the only
\* steps that change it are the writes that end an add or a remove.
OnlyMutatorWrites ==
    [][/\ (pc' # pc \/ exit_code' # exit_code \/ features_cmd' # features_cmd)
          => file' = file
       /\ file' # file
          => \E c \in Proc : mpc[c] # "done" /\ mpc'[c] = "done"]_vars

OnlyMutatorWritesWitness ==
    /\ exit_code[1] = 0 /\ exit_code[2] = 1
    /\ features_cmd.printed = 2
    /\ mpc[1] = "done" /\ file = updated_toml[1] /\ file # project_toml[1]

-----------------------------------------------------------------------------
(* Two builds of one mode with different features *)

\* [features] "a-b" = ["c"] and "d" = []; one build for dev with no
\* feature named, the other for dev with --features d or --features a-b.
InitBuildRace ==
    /\ config = [BaseConfig EXCEPT
                   !.features = (F_ab :> <<F_c>>) @@ (F_d :> <<>>)]
    /\ \E fs \in {<<F_d>>, <<F_ab>>} :
         args = [i \in Inv |-> BuildArgs(M_dev, IF i = 1 THEN <<>> ELSE fs,
                                         FALSE, FALSE)]
    /\ InitLocals

SpecBuildRace == InitBuildRace /\ [][NextBuild]_vars

\* C25: nothing keeps two builds of one mode apart: each writes its build
\* file over the one in .build/<mode>, its cmake --build builds the file
\* that is there at that moment, whichever build wrote it, and it copies
\* the artifact that is there; so a build can end with success on the
\* artifact of the other build's features.
BuildsShareBuildDir ==
    [][\A i \in Inv :
         LET mode == args[i].mode
         IN  /\ (pc[i] = "resolved" /\ pc'[i] = "generated")
                  => build_dir'[mode] = cmake_content'[i]
             /\ (pc[i] = "configured" /\ pc'[i] = "built")
                  => artifacts'[mode] = build_dir[mode]
             /\ (pc[i] = "built" /\ pc'[i] = "done")
                  => target_dir'[mode] = artifacts[mode]]_vars

\* The first build has ended with exit code 0 before the second has run
\* cmake, and target/dev holds the artifact of the second's build file.
BuildsShareBuildDirWitness ==
    /\ pc[1] = "done" /\ exit_code[1] = 0
    /\ pc[2] = "generated"
    /\ cmake_content[2] # cmake_content[1]
    /\ target_dir[M_dev] = cmake_content[2]

-----------------------------------------------------------------------------
(* The watch loop *)

\* The largest time stamp a file gets.
MaxClock == 3

\* `zora watch <command>`: the three commands the loop runs, and one it
\* does not know.
WatchCommands == {"build", "test", "run", "fmt"}

Rebuilds == {"build", "test", "run"}

AfterRebuildStops(outcome) == IF outcome = "ok" THEN "sleep" ELSE "stopped"

\* watch.rs 54-66: both arms of the match on the result only print; the
\* loop goes on to the sleep whatever the rebuild ended with.
AfterRebuild(outcome) == "sleep"

\* watch.rs 21-22: the top of the loop.
WatchBegin ==
    /\ watch.pc = "loop"
    /\ watch' = [watch EXCEPT !.pc = "scan", !.k = 1,
                              !.should_rebuild = FALSE, !.started = 0]
    /\ UNCHANGED <<mtime, clock>>
    /\ UNCHANGED <<build_vars, pipeline_vars, mutator_vars, collab,
                   features_cmd>>

\* watch.rs 25-36: one entry of read_dir, which lists the directory itself
\* and nothing below it. The first entry modified after the watermark sets
\* should_rebuild, moves the watermark to the present time and ends the scan.
WatchScan ==
    /\ watch.pc = "scan"
    /\ LET entry == TopEntries[watch.k]
       IN  watch' =
             IF mtime[entry] > watch.last_modified
             THEN [watch EXCEPT !.should_rebuild = TRUE,
                                !.last_modified = clock, !.pc = "decide"]
             ELSE IF watch.k < Len(TopEntries)
             THEN [watch EXCEPT !.k = @ + 1]
             ELSE [watch EXCEPT !.pc = "decide"]
    /\ UNCHANGED <<mtime, clock>>
    /\ UNCHANGED <<build_vars, pipeline_vars, mutator_vars, collab,
                   features_cmd>>

\* watch.rs 40-52: with should_rebuild, start `zora <command>` for build,
\* test and run, and go back to the top of the loop for any other command;
\* without it, go to the sleep.
WatchDecide ==
    /\ watch.pc = "decide"
    /\ watch' =
         IF ~watch.should_rebuild THEN [watch EXCEPT !.pc = "sleep"]
         ELSE IF watch.command \in Rebuilds
         THEN [watch EXCEPT !.pc = "rebuild", !.rebuilds = @ + 1,
                            !.started = @ + 1, !.in_flight = @ + 1]
         ELSE [watch EXCEPT !.pc = "loop"]
    /\ UNCHANGED <<mtime, clock>>
    /\ UNCHANGED <<build_vars, pipeline_vars, mutator_vars, collab,
                   features_cmd>>

\* watch.rs 44-61: status() returns when the child has ended, or at once
\* when it did not start.
WatchRebuildEnd ==
    /\ watch.pc = "rebuild"
    /\ \E outcome \in Outcomes :
         watch' = [watch EXCEPT !.pc = AfterRebuild(outcome),
                                !.in_flight = @ - 1, !.last = outcome]
    /\ UNCHANGED <<mtime, clock>>
    /\ UNCHANGED <<build_vars, pipeline_vars, mutator_vars, collab,
                   features_cmd>>

\* watch.rs 66: thread::sleep, then the next turn of the loop.
WatchSleep ==
    /\ watch.pc = "sleep"
    /\ watch' = [watch EXCEPT !.pc = "loop"]
    /\ UNCHANGED <<mtime, clock>>
    /\ UNCHANGED <<build_vars, pipeline_vars, mutator_vars, collab,
                   features_cmd>>

\* Somebody saves a source file, at any moment. A file below a directory
\* of the source directory is written in place, which leaves the
\* directory's time stamp, or replaced by a rename, which moves it.
Modify(f) ==
    /\ clock < MaxClock
    /\ clock' = clock + 1
    /\ \E renamed \in BOOLEAN :
         mtime' = [e \in SourceTree |->
                     IF e = f THEN clock'
                     ELSE IF e = "sub" /\ f = "sub/b.c" /\ renamed THEN clock'
                     ELSE mtime[e]]
    /\ UNCHANGED watch
    /\ UNCHANGED <<build_vars, pipeline_vars, mutator_vars, collab,
                   features_cmd>>

\* The steps of the loop itself.
WatchStep ==
    WatchBegin \/ WatchScan \/ WatchDecide \/ WatchRebuildEnd \/ WatchSleep

NextWatch == WatchStep \/ \E f \in {"a.c", "sub/b.c"} : Modify(f)

\* watch.rs 19: the watermark starts at the present time, with every file
\* saved before.
InitWatch ==
    /\ InitNoBuild
    /\ InitNoMutator
    /\ collab = [t \in Tools |-> ToolOff]
    /\ features_cmd = NoFeatureCommand
    /\ \E command \in WatchCommands :
         watch = [WatchOff EXCEPT !.pc = "loop", !.command = command]
    /\ mtime = [f \in SourceTree |-> 0]
    /\ clock = 0

SpecWatch == InitWatch /\ [][NextWatch]_vars

\* C26: the watch loop never overlaps rebuilds: at most one rebuild is in
\* flight, at most one is started in a turn of the loop, the loop scans
\* only with no rebuild in flight, the step after a started rebuild is its
\* end, and after a failed rebuild the loop is still running.
RebuildsNeverOverlap ==
    /\ watch.in_flight <= 1
    /\ watch.started <= 1
    /\ watch.in_flight = 1 <=> watch.pc = "rebuild"
    /\ watch.last \in {"nonzero", "noexec"}
         => watch.pc \in {"loop", "scan", "decide", "rebuild", "sleep"}

\* A second rebuild is in flight after a first one that failed.
RebuildsNeverOverlapWitness ==
    /\ watch.pc = "rebuild"
    /\ watch.rebuilds = 2
    /\ watch.last = "nonzero"
    /\ mtime["a.c"] > watch.last_modified

\* The loop keeps polling: a step of the loop that can be taken is taken.
SpecWatchFair == SpecWatch /\ WF_vars(WatchStep)

\* The source files: the template's GLOB_RECURSE takes the files of the
\* source directory and of the directories below it.
SourceFiles == {"a.c", "sub/b.c"}

\* C29: with a command the loop runs, a source file whose time stamp is
\* later than the watermark is followed by the start of a further rebuild.
NoChangeLost ==
    \A f \in SourceFiles, n \in 0..MaxClock :
        (/\ watch.command \in Rebuilds
         /\ mtime[f] > watch.last_modified
         /\ watch.rebuilds = n) ~> watch.rebuilds > n

-----------------------------------------------------------------------------
(* add_dependencies_to_toml: a second call, and the lines that were there *)

\* C27: add_dependencies_to_toml applied to its own result with the same
\* packages gives that result again: the second call inserts no line.
AddIdempotent ==
    \A c \in Proc : AddDone(c) =>
        add_dependencies_to_toml(updated_toml[c], cmd[c].packages)
          = updated_toml[c]

\* The first call appended the header and inserted two lines.
AddIdempotentWitness ==
    /\ AddDone(1)
    /\ HeaderLines(LinesIn(1)) = {}
    /\ Len(LinesIn(1)) = MaxLines
    /\ Len(LinesOut(1)) = Len(LinesIn(1)) + 4

\* The entry lines an add can insert.
RequestedLines(c) ==
    {dep_line(cmd[c].packages[k]) : k \in 1..Len(cmd[c].packages)}

\* C30: add deletes, changes and reorders no line: taking from its result
\* some lines that are entries of requested packages leaves the lines of
\* the input, in their order, followed by an empty line and the header
\* when the input had no header.
AddKeepsLines ==
    \A c \in Proc : AddDone(c) =>
        \E S \in SUBSET (1..Len(LinesOut(c))) :
            /\ \A k \in S : LinesOut(c)[k] \in RequestedLines(c)
            /\ Pick(LinesOut(c), (1..Len(LinesOut(c))) \ S) = Base(c)

\* An entry was inserted between two lines of the input.
AddKeepsLinesWitness ==
    /\ AddDone(1)
    /\ Len(LinesIn(1)) = MaxLines
    /\ \E k \in 2..(Len(LinesOut(1)) - 1) :
         /\ LinesOut(1)[k] \in RequestedLines(1)
         /\ LinesOut(1)[k + 1] = L_build
         /\ LinesIn(1)[k] = L_build

-----------------------------------------------------------------------------
(* An add at the same time as another add or a remove *)

\* project.toml with a header and an entry or without; `zora add zlib`
\* next to `zora add fmt` or `zora remove foo`.
InitRace ==
    /\ InitNoBuild
    /\ InitCollaborators
    /\ file \in {d \in Documents :
                   Range(lines(d)) \subseteq {DepsHeader, L_foobar}}
    /\ InitMutatorLocals(Proc)
    /\ \E other \in {[op |-> "add", packages |-> <<P_fmt>>],
                     [op |-> "remove", packages |-> <<P_foo>>]} :
         cmd = [c \in Proc |->
                  IF c = 1 THEN [op |-> "add", packages |-> <<P_zlib>>]
                  ELSE other]

SpecRace == InitRace /\ [][NextMutator]_vars

\* What a command makes of a text.
Edited(c, text) ==
    IF cmd[c].op = "add" THEN add_dependencies_to_toml(text, cmd[c].packages)
    ELSE remove_dependencies_from_toml(text, cmd[c].packages)

\* C28: the write that ends an add or a remove replaces the whole of
\* project.toml by the command's edit of the text it read earlier,
\* whatever another command has written since; so the edit of a command
\* that ended well can be missing from the final document.
WriteReplacesWhatWasRead ==
    [][\A c \in Proc :
         (mpc[c] # "done" /\ mpc'[c] = "done")
           => file' = Edited(c, project_toml[c])]_vars

\* Both commands have ended well, the add of zlib inserted its entry, and
\* project.toml has no entry of zlib.
WriteReplacesWhatWasReadWitness ==
    /\ mpc[1] = "done" /\ mpc[2] = "done"
    /\ dep_line(P_zlib) \in Range(LinesOut(1))
    /\ dep_line(P_zlib) \notin Range(lines(file))

====
